---------------------------- MODULE Spec2Model ----------------------------
(***************************************************************************)
(* A state-machine model of the browser scripts of the repository:         *)
(*   - the video editor panel (src/12-spanish-rock-paper-scissors.js,      *)
(*     lines 121-678): upload, upscale / resize submission, status         *)
(*     polling on an interval timer, reset;                                *)
(*   - the photo editor panel (src/photo-editor.js);                       *)
(*   - the shared UI helper (src/unnamed/part_000): showToast,             *)
(*     handleError, apiRequest, uploadFile, validate*File.                 *)
(*                                                                         *)
(* JavaScript runs every handler to its next await without interruption,   *)
(* so each action below is one such run: the synchronous prefix of an      *)
(* async function (which ends by putting a request in flight) or the       *)
(* continuation that runs when the request's promise settles.  Requests    *)
(* in flight settle in any order.                                          *)
(*                                                                         *)
(* Not modelled: the preview image, the dropzone, the info text, the       *)
(* status text lines and the upload progress callback (DOM text that no    *)
(* handler reads back).                                                    *)
(***************************************************************************)
EXTENDS Naturals, Integers, Sequences, FiniteSets, TLC

VARIABLES
    section,        \* the panel this session drives: "video" or "photo"
    videoState,     \* the videoState object
    videoElements,  \* the DOM properties of videoElements the handlers write
    photoState,     \* the photoState object
    photoElements,  \* the DOM properties of photoElements the handlers write
    intervals,      \* every interval timer created so far, by timer id
    uploads,        \* upload requests (XMLHttpRequest) in flight, in issue order
    submits,        \* submit requests (fetch) in flight, in issue order
    polls,          \* status requests (fetch) in flight, in issue order
    stored,         \* remote service: the number of files stored (the last upload id)
    jobs,           \* remote service: the state of each job, by job id
    notified,       \* history: the terminal notifications shown so far, by job id
    shownJob,       \* history: the job whose poll last wrote the progress display
    toasts,         \* the notifications showToast showed in the last step, in order
    logged,         \* the lines console.error wrote in the last step, in order
    container,      \* the toast elements in #toast-container, in document order
    timeouts,       \* the setTimeout callbacks of showToast that are pending
    created,        \* the number of toast elements createElement has made
    now,            \* the time in ms since the page was loaded
    score,          \* the game: the score object (wins, losses, ties)
    result,         \* the game: the text of .js-result
    moves,          \* the game: the two moves .js-moves shows
    isAutoPlaying,  \* the game: the flag autoPlay toggles
    intervalId,     \* the game: the id of the interval autoPlay created last
    autoPlayCalls   \* history: the number of calls of autoPlay so far

vars == <<section, videoState, videoElements, photoState, photoElements,
          intervals, uploads, submits, polls, stored, jobs, notified,
          shownJob, toasts, logged, container, timeouts, created, now,
          score, result, moves, isAutoPlaying, intervalId, autoPlayCalls>>

\* the rock-paper-scissors game, which the panels leave alone
gameVars == <<score, result, moves, isAutoPlaying, intervalId, autoPlayCalls>>

\* the toast container and its timers; the panels of the model record the
\* notifications of a step in toasts and leave the container alone
toastVars == <<container, timeouts, created, now>>

-----------------------------------------------------------------------------
(* Bounds of the model *)

\* handles per session: upload ids and job ids the service has given out, plus
\* the upload and submit requests in flight that may still obtain one
MaxHandles == 3
\* the same for a session of the photo panel, whose jobs are not polled
MaxPhotoHandles == 4
\* status requests in flight at once
MaxInFlight == 2
\* the service reports progress in steps of 100 / MaxProgress percent
MaxProgress == 1

-----------------------------------------------------------------------------
(* Values *)

\* JavaScript null where a handle (upload id, job id, timer id) is expected:
\* the handles themselves are 1, 2, ...
Null == 0
\* null where a File is expected
NoFile == [type |-> "", size |-> 0]
\* null where the upload's metadata is expected
NoMetadata == [size |-> 0]
\* a status response without a progress field, without an error field
NoProgress == -1
NoErrorField == "undefined"

ImageMaxSize == 50 * 1024 * 1024
VideoMaxSize == 500 * 1024 * 1024
TenMB == 10 * 1024 * 1024
DefaultToastDuration == 5000

ImageTypes ==
    {"image/jpeg", "image/png", "image/bmp", "image/gif", "image/tiff", "image/webp"}

VideoTypes ==
    {"video/mp4", "video/avi", "video/quicktime", "video/x-matroska",
     "video/webm", "video/x-flv", "video/x-ms-wmv"}

\* the files the user picks from in a panel: an image type, a video type and a
\* type in neither list, each with a small size, the panel's limit and the
\* limit plus one byte
SampleTypes == {"image/png", "video/mp4", "application/pdf"}
SampleSizes(maxSize) == {TenMB, maxSize, maxSize + 1}
VideoFiles == [type : SampleTypes, size : SampleSizes(VideoMaxSize)]
PhotoFiles == [type : SampleTypes, size : SampleSizes(ImageMaxSize)]

-----------------------------------------------------------------------------
(* src/unnamed/part_000: the shared helper *)

\* showToast(message, type, duration): the notification it adds to the container
Toast(message, type, duration) ==
    [message |-> message, type |-> type, duration |-> duration]

ShowToast(message, type) == Toast(message, type, DefaultToastDuration)

\* the size errors end with formatFileSize(file.size), which the model leaves out
SizeErrorImage(file) == "File size exceeds 50MB limit."
SizeErrorVideo(file) == "File size exceeds 500MB limit."

\* validateImageFile refusing a file of exactly the limit
validateImageFile_LimitExcluded(file) ==
    IF file.type \notin ImageTypes
    THEN [valid |-> FALSE,
          error |-> "Invalid file type. Please upload a JPG, PNG, BMP, GIF, TIFF, or WebP image."]
    ELSE IF file.size >= ImageMaxSize
    THEN [valid |-> FALSE, error |-> SizeErrorImage(file)]
    ELSE [valid |-> TRUE, error |-> ""]

validateImageFile(file) ==
    IF file.type \notin ImageTypes
    THEN [valid |-> FALSE,
          error |-> "Invalid file type. Please upload a JPG, PNG, BMP, GIF, TIFF, or WebP image."]
    ELSE IF file.size > ImageMaxSize
    THEN [valid |-> FALSE, error |-> SizeErrorImage(file)]
    ELSE [valid |-> TRUE, error |-> ""]

\* validateVideoFile without its size check
validateVideoFile_NoSizeCheck(file) ==
    IF file.type \notin VideoTypes
    THEN [valid |-> FALSE,
          error |-> "Invalid file type. Please upload an MP4, AVI, MOV, MKV, WebM, FLV, or WMV video."]
    ELSE [valid |-> TRUE, error |-> ""]

validateVideoFile(file) ==
    IF file.type \notin VideoTypes
    THEN [valid |-> FALSE,
          error |-> "Invalid file type. Please upload an MP4, AVI, MOV, MKV, WebM, FLV, or WMV video."]
    ELSE IF file.size > VideoMaxSize
    THEN [valid |-> FALSE, error |-> SizeErrorVideo(file)]
    ELSE [valid |-> TRUE, error |-> ""]

\* handleError(error, context): the toast it shows; an Error with an empty
\* message falls through to the default text
handleError(error, context) ==
    ShowToast(IF error.message # ""
              THEN error.message
              ELSE "Failed to " \o context \o ". Please try again.",
              "error")

\* The ways a fetch through apiRequest ends: the parsed body, or an Error thrown
\* for a network failure or a non-success status (with or without an error body)
ApiFailures == {"network", "http", "http+error"}

apiRequestError(failure) ==
    [message |-> CASE failure = "network" -> "Failed to fetch"
                   [] failure = "http" -> "HTTP error! status"
                   [] failure = "http+error" -> "error text of the response"]

\* The ways uploadFile rejects: a non-success status whose body is unparsable
\* or has no error field, has an empty one, or has an error text; a success
\* status with an unparsable body; a network error; an abort
UploadFailures ==
    {"status", "status+empty", "status+error", "badjson", "network", "abort"}

\* an uploadFile that never reads the body of a failed response
uploadFileError_BodyIgnored(failure) ==
    [message |-> CASE failure \in {"status", "status+empty", "status+error"} ->
                        "Upload failed with status"
                   [] failure = "badjson" -> "Invalid JSON response"
                   [] failure = "network" -> "Network error during upload"
                   [] failure = "abort" -> "Upload aborted"]

uploadFileError(failure) ==
    [message |-> CASE failure \in {"status", "status+empty"} ->
                        "Upload failed with status"
                   [] failure = "status+error" -> "error text of the response"
                   [] failure = "badjson" -> "Invalid JSON response"
                   [] failure = "network" -> "Network error during upload"
                   [] failure = "abort" -> "Upload aborted"]

-----------------------------------------------------------------------------
(* The remote service, as far as the panels observe it *)

\* a job's state: terminal states are absorbing, progress never decreases
JobStates ==
    [status : {"processing", "completed", "failed"}, progress : 0..MaxProgress]

NewJob == [status |-> "processing", progress |-> 0]

\* the states a job in state s can be in when the service next looks at it
LaterStates(s) ==
    IF s.status # "processing"
    THEN {s}
    ELSE {t \in JobStates :
            /\ t.progress >= s.progress
            /\ t.status = "completed" => t.progress = MaxProgress}

\* the error field of a status response: absent, empty or a description
ErrorFields == {NoErrorField, "", "decode error"}

\* the bodies the status endpoint may send for a job in state s: the progress
\* field may be left out, the error field comes only with "failed"
StatusBodies(s) ==
    {[status |-> s.status, progress |-> p, error |-> e] :
        p \in {s.progress, NoProgress},
        e \in IF s.status = "failed" THEN ErrorFields ELSE {NoErrorField}}

-----------------------------------------------------------------------------
(* Timers *)

\* setInterval(checkVideoStatus, 2000) for the current job: the new timer's id
\* is its index
setInterval(ivs, job) == Append(ivs, [live |-> TRUE, job |-> job])

clearInterval(ivs, id) ==
    IF id = Null THEN ivs ELSE [ivs EXCEPT ![id].live = FALSE]

LiveTimers == {t \in DOMAIN intervals : intervals[t].live}

-----------------------------------------------------------------------------
(* Initial state *)

InitVideoState ==
    [uploadId |-> Null, jobId |-> Null, originalFile |-> NoFile, metadata |-> NoMetadata,
     currentOperation |-> "upscale", selectedResolution |-> "1080p",
     quality |-> "high", resizeMethod |-> "filesize",
     statusPollInterval |-> Null]

\* the state resetVideoEditor ("Reset video editor to initial state") leaves
InitVideoElements ==
    [upscaleBtnDisabled |-> TRUE, resizeBtnDisabled |-> TRUE,
     processingHidden |-> TRUE, downloadHidden |-> TRUE,
     progressPercent |-> 0]

DefaultEffects ==
    [filter |-> "", brightness |-> 10, contrast |-> 10, color |-> 10, sharpness |-> 10]

InitPhotoState ==
    [uploadId |-> Null, jobId |-> Null, originalFile |-> NoFile,
     currentEffects |-> DefaultEffects]

InitPhotoElements ==
    [processBtnDisabled |-> TRUE, processingHidden |-> TRUE, downloadHidden |-> TRUE]

\* the game as the script leaves it at load when localStorage holds no score
DefaultScore == [wins |-> 0, losses |-> 0, ties |-> 0]
\* .js-moves before the first round
NoMoves == [player |-> "", computer |-> ""]

GameIdle ==
    /\ score = DefaultScore
    /\ result = ""
    /\ moves = NoMoves
    /\ isAutoPlaying = FALSE
    /\ intervalId = Null
    /\ autoPlayCalls = 0

Init ==
    /\ section \in {"video", "photo"}
    /\ videoState = InitVideoState
    /\ videoElements = InitVideoElements
    /\ photoState = InitPhotoState
    /\ photoElements = InitPhotoElements
    /\ intervals = <<>>
    /\ uploads = <<>>
    /\ submits = <<>>
    /\ polls = <<>>
    /\ stored = 0
    /\ jobs = <<>>
    /\ notified = <<>>
    /\ shownJob = Null
    /\ toasts = <<>>
    /\ logged = <<>>
    /\ container = <<>>
    /\ timeouts = {}
    /\ created = 0
    /\ now = 0
    /\ GameIdle

HandlesUsed == stored + Len(uploads) + Len(jobs) + Len(submits)

Remove(seq, i) == SubSeq(seq, 1, i - 1) \o SubSeq(seq, i + 1, Len(seq))

photoVars == <<photoState, photoElements>>
videoVars == <<videoState, videoElements, intervals, polls, shownJob>>

-----------------------------------------------------------------------------
(* Video panel: file upload *)

\* a reset that forgets the job id
resetVideoState_KeepsJob(vs) ==
    [vs EXCEPT !.uploadId = Null, !.originalFile = NoFile,
               !.metadata = NoMetadata, !.statusPollInterval = Null]

\* resetVideoEditor(): the state and the DOM properties it leaves
resetVideoState(vs) ==
    [vs EXCEPT !.uploadId = Null, !.jobId = Null, !.originalFile = NoFile,
               !.metadata = NoMetadata, !.statusPollInterval = Null]

resetVideoElements(ve) ==
    [ve EXCEPT !.upscaleBtnDisabled = TRUE, !.resizeBtnDisabled = TRUE,
               !.processingHidden = TRUE, !.downloadHidden = TRUE]

\* handleVideoFile(file) up to its await
HandleVideoFile(file) ==
    /\ section = "video"
    /\ LET validation == validateVideoFile(file) IN
       IF ~validation.valid
       THEN /\ toasts' = <<ShowToast(validation.error, "error")>>
            /\ UNCHANGED <<videoState, uploads>>
       ELSE /\ HandlesUsed < MaxHandles
            /\ videoState' = [videoState EXCEPT !.originalFile = file]
            /\ uploads' = Append(uploads, [endpoint |-> "/api/video/upload", file |-> file])
            /\ toasts' = <<Toast("Uploading video...", "info", 3000)>>
    /\ logged' = <<>>
    /\ UNCHANGED <<section, videoElements, photoVars, intervals, submits, polls,
                   stored, jobs, notified, shownJob>>
    /\ UNCHANGED toastVars
    /\ UNCHANGED gameVars

\* handleVideoFile after the await, uploadFile resolved
VideoUploadResolved(i) ==
    /\ section = "video"
    /\ i \in DOMAIN uploads
    /\ stored' = stored + 1
    /\ videoState' = [videoState EXCEPT !.uploadId = stored',
                                        !.metadata = [size |-> uploads[i].file.size]]
    /\ uploads' = Remove(uploads, i)
    /\ videoElements' = [videoElements EXCEPT !.upscaleBtnDisabled = FALSE,
                                              !.resizeBtnDisabled = FALSE]
    /\ toasts' = <<ShowToast("Video uploaded successfully!", "success")>>
    /\ logged' = <<>>
    /\ UNCHANGED <<section, photoVars, intervals, submits, polls, jobs,
                   notified, shownJob>>
    /\ UNCHANGED toastVars
    /\ UNCHANGED gameVars

\* handleVideoFile after the await, uploadFile rejected: handleError, then reset
VideoUploadRejected(i, failure) ==
    /\ section = "video"
    /\ i \in DOMAIN uploads
    /\ uploads' = Remove(uploads, i)
    /\ intervals' = clearInterval(intervals, videoState.statusPollInterval)
    /\ videoState' = resetVideoState(videoState)
    /\ videoElements' = resetVideoElements(videoElements)
    /\ toasts' = <<handleError(uploadFileError(failure), "upload video")>>
    /\ logged' = <<"Error during upload video:">>
    /\ UNCHANGED <<section, photoVars, submits, polls, stored, jobs,
                   notified, shownJob>>
    /\ UNCHANGED toastVars
    /\ UNCHANGED gameVars

\* the remove button: resetVideoEditor()
ResetVideoEditor ==
    /\ section = "video"
    /\ intervals' = clearInterval(intervals, videoState.statusPollInterval)
    /\ videoState' = resetVideoState(videoState)
    /\ videoElements' = resetVideoElements(videoElements)
    /\ toasts' = <<>>
    /\ logged' = <<>>
    /\ UNCHANGED <<section, photoVars, uploads, submits, polls, stored, jobs,
                   notified, shownJob>>
    /\ UNCHANGED toastVars
    /\ UNCHANGED gameVars

-----------------------------------------------------------------------------
(* Video panel: status polling *)

\* startStatusPolling without "Clear any existing interval"
startStatusPolling_NoClear(ivs, handle, job) == setInterval(ivs, job)

\* startStatusPolling(), the timer part: clear the interval the state holds,
\* create the new one (its id is stored in statusPollInterval)
startStatusPolling(ivs, handle, job) ==
    setInterval(clearInterval(ivs, handle), job)

\* checkVideoStatus without its guard: a request is issued for whatever the
\* jobId holds
checkVideoStatus_NoGuard(job, js) ==
    /\ jobs' = js
    /\ polls' = Append(polls, [job |-> job, state |-> NewJob])

\* the request checkVideoStatus() issues before it awaits: none without a job.
\* The service answers from the state the job has reached by then; the request
\* in flight carries that state, the fields of the body are fixed on arrival.
checkVideoStatus(job, js) ==
    IF job = Null
    THEN /\ polls' = polls
         /\ jobs' = js
    ELSE \E s \in LaterStates(js[job]) :
            /\ jobs' = [js EXCEPT ![job] = s]
            /\ polls' = Append(polls, [job |-> job, state |-> s])

\* startStatusPolling without "Check immediately": the first poll waits for a tick
immediateCheck_Skipped(job, js) ==
    /\ polls' = polls
    /\ jobs' = js

\* startStatusPolling(), "Check immediately": checkVideoStatus() for the new job
immediateCheck(job, js) == checkVideoStatus(job, js)

\* a tick of a live interval timer: checkVideoStatus()
TimerTick(t) ==
    /\ section = "video"
    /\ t \in LiveTimers
    /\ Len(polls) < MaxInFlight
    /\ checkVideoStatus(videoState.jobId, jobs)
    /\ toasts' = <<>>
    /\ logged' = <<>>
    /\ UNCHANGED <<section, videoState, videoElements, photoVars, intervals,
                   uploads, submits, stored, notified, shownJob>>
    /\ UNCHANGED toastVars
    /\ UNCHANGED gameVars

\* response.progress || 0
progressOf(body) == IF body.progress = NoProgress THEN 0 ELSE body.progress

\* the error text taken without the default
errorMsgOf_NoDefault(body) == body.error

\* response.error || 'Video processing failed'
errorMsgOf(body) ==
    IF body.error = NoErrorField \/ body.error = ""
    THEN "Video processing failed"
    ELSE body.error

\* the toasts checkVideoStatus shows for a response
statusToasts(body) ==
    CASE body.status = "completed" ->
            <<ShowToast("Video processed successfully!", "success")>>
      [] body.status = "failed" -> <<ShowToast(errorMsgOf(body), "error")>>
      [] OTHER -> <<>>

\* a 'completed' branch that forgets to show the download section
statusElements_NoDownload(ve, body) ==
    CASE body.status \in {"completed", "failed"} ->
            [ve EXCEPT !.progressPercent = progressOf(body),
                       !.processingHidden = TRUE,
                       !.upscaleBtnDisabled = FALSE, !.resizeBtnDisabled = FALSE]
      [] OTHER -> [ve EXCEPT !.progressPercent = progressOf(body)]

\* the DOM properties checkVideoStatus leaves for a response
statusElements(ve, body) ==
    CASE body.status = "completed" ->
            [ve EXCEPT !.progressPercent = progressOf(body),
                       !.processingHidden = TRUE, !.downloadHidden = FALSE,
                       !.upscaleBtnDisabled = FALSE, !.resizeBtnDisabled = FALSE]
      [] body.status = "failed" ->
            [ve EXCEPT !.progressPercent = progressOf(body),
                       !.processingHidden = TRUE,
                       !.upscaleBtnDisabled = FALSE, !.resizeBtnDisabled = FALSE]
      [] OTHER -> [ve EXCEPT !.progressPercent = progressOf(body)]

\* the timer checkVideoStatus clears for a response: on a terminal status the
\* one statusPollInterval holds at that moment
statusCleared(ivs, handle, body) ==
    IF body.status \in {"completed", "failed"}
    THEN clearInterval(ivs, handle)
    ELSE ivs

\* checkVideoStatus after the await, apiRequest resolved
PollResolved(i, body) ==
    /\ section = "video"
    /\ i \in DOMAIN polls
    /\ body \in StatusBodies(polls[i].state)
    /\ LET terminal == body.status \in {"completed", "failed"}
       IN
       /\ videoElements' = statusElements(videoElements, body)
       /\ intervals' = statusCleared(intervals, videoState.statusPollInterval, body)
       /\ videoState' = IF terminal
                        THEN [videoState EXCEPT !.statusPollInterval = Null]
                        ELSE videoState
       /\ notified' = [notified EXCEPT ![polls[i].job] = @ + Len(statusToasts(body))]
       /\ toasts' = statusToasts(body)
    /\ shownJob' = polls[i].job
    /\ polls' = Remove(polls, i)
    /\ logged' = <<>>
    /\ UNCHANGED <<section, photoVars, uploads, submits, stored, jobs>>
    /\ UNCHANGED toastVars
    /\ UNCHANGED gameVars

\* a catch block that reports the failure the way the other handlers do
pollErrorToasts_Shown(error) == <<handleError(error, "check video status")>>

\* the toasts the catch block of checkVideoStatus shows: it only logs
pollErrorToasts(error) == <<>>

\* what a failed status request logs: apiRequest's catch, then checkVideoStatus's
pollErrorLogged == <<"API request failed:", "Error checking video status:">>

\* checkVideoStatus after the await, apiRequest threw
PollRejected(i, failure) ==
    /\ section = "video"
    /\ i \in DOMAIN polls
    /\ polls' = Remove(polls, i)
    /\ toasts' = pollErrorToasts(apiRequestError(failure))
    /\ logged' = pollErrorLogged
    /\ UNCHANGED <<section, videoState, videoElements, photoVars, intervals,
                   uploads, submits, stored, jobs, notified, shownJob>>
    /\ UNCHANGED toastVars
    /\ UNCHANGED gameVars

-----------------------------------------------------------------------------
(* Video panel: submission *)

\* a submission without its guard
uploadMissing_Unchecked(uploadId) == FALSE

\* the guard of upscaleVideo / resizeVideo / processPhoto
uploadMissing(uploadId) == uploadId = Null

upscalePayload(vs) ==
    [upload_id |-> vs.uploadId, resolution |-> vs.selectedResolution,
     quality |-> vs.quality]

\* a resize payload that carries the resize method the page was loaded with
resizePayload_MethodAtLoad(vs) ==
    [upload_id |-> vs.uploadId, resize_type |-> "filesize"]

\* the resize payload; its target_mb / width / height come from input elements
\* the model does not hold
resizePayload(vs) ==
    [upload_id |-> vs.uploadId, resize_type |-> vs.resizeMethod]

\* the option controls of the video panel: the tab buttons, the resolution
\* buttons, the quality select and the resize method select each assign one
\* field of videoState and touch nothing else of the session.  The alphabet
\* holds the values the handlers themselves name.
OptionValues(option) ==
    CASE option = "currentOperation" -> {"upscale", "resize"}
      [] option = "resizeMethod" -> {"filesize", "dimensions"}

\* the options a session of the model moves
MovedOptions == {"resizeMethod"}

\* a click on a tab or a change of a select of the video panel
SetVideoOption(option, value) ==
    /\ section = "video"
    /\ option \in MovedOptions
    /\ value \in OptionValues(option)
    /\ videoState' = [videoState EXCEPT ![option] = value]
    /\ toasts' = <<>>
    /\ logged' = <<>>
    /\ UNCHANGED <<section, videoElements, photoVars, intervals, uploads, submits,
                   polls, stored, jobs, notified, shownJob>>
    /\ UNCHANGED toastVars
    /\ UNCHANGED gameVars

\* upscaleVideo() up to its await: a click on the upscale button
UpscaleVideo ==
    /\ section = "video"
    /\ ~videoElements.upscaleBtnDisabled
    /\ IF uploadMissing(videoState.uploadId)
       THEN /\ toasts' = <<ShowToast("Please upload a video first", "error")>>
            /\ UNCHANGED <<videoElements, submits, shownJob>>
       ELSE /\ HandlesUsed < MaxHandles
            /\ videoElements' = [videoElements EXCEPT
                                    !.processingHidden = FALSE,
                                    !.downloadHidden = TRUE,
                                    !.upscaleBtnDisabled = TRUE,
                                    !.progressPercent = 0]
            /\ submits' = Append(submits, [endpoint |-> "/api/video/upscale",
                                           body |-> upscalePayload(videoState),
                                           overtaken |-> FALSE])
            /\ shownJob' = Null
            /\ toasts' = <<>>
    /\ logged' = <<>>
    /\ UNCHANGED <<section, videoState, photoVars, intervals, uploads, polls,
                   stored, jobs, notified>>
    /\ UNCHANGED toastVars
    /\ UNCHANGED gameVars

\* resizeVideo() up to its await: a click on the resize button
ResizeVideo ==
    /\ section = "video"
    /\ ~videoElements.resizeBtnDisabled
    /\ IF uploadMissing(videoState.uploadId)
       THEN /\ toasts' = <<ShowToast("Please upload a video first", "error")>>
            /\ UNCHANGED <<videoElements, submits, shownJob>>
       ELSE /\ HandlesUsed < MaxHandles
            /\ videoElements' = [videoElements EXCEPT
                                    !.processingHidden = FALSE,
                                    !.downloadHidden = TRUE,
                                    !.resizeBtnDisabled = TRUE,
                                    !.progressPercent = 0]
            /\ submits' = Append(submits, [endpoint |-> "/api/video/resize",
                                           body |-> resizePayload(videoState),
                                           overtaken |-> FALSE])
            /\ shownJob' = Null
            /\ toasts' = <<>>
    /\ logged' = <<>>
    /\ UNCHANGED <<section, videoState, photoVars, intervals, uploads, polls,
                   stored, jobs, notified>>
    /\ UNCHANGED toastVars
    /\ UNCHANGED gameVars

\* the submit requests still in flight once the response of request i has been
\* handled: the ones sent before it are marked as overtaken by a submission
\* started after them (a record of the order, which the program does not keep)
Overtake(reqs, i) ==
    Remove([k \in DOMAIN reqs |->
                IF k < i THEN [reqs[k] EXCEPT !.overtaken = TRUE] ELSE reqs[k]], i)

IsVideoSubmit(r) == r.endpoint \in {"/api/video/upscale", "/api/video/resize"}

\* upscaleVideo / resizeVideo after the await, apiRequest resolved with the
\* new job's id: store it, start polling, show the toast
VideoSubmitResolved(i) ==
    /\ section = "video"
    /\ i \in DOMAIN submits
    /\ IsVideoSubmit(submits[i])
    /\ Len(polls) < MaxInFlight
    /\ LET job == Len(jobs) + 1 IN
       /\ intervals' = startStatusPolling(intervals, videoState.statusPollInterval, job)
       /\ videoState' = [videoState EXCEPT !.jobId = job,
                                           !.statusPollInterval = Len(intervals')]
       /\ immediateCheck(job, Append(jobs, NewJob))
       /\ notified' = Append(notified, 0)
       /\ toasts' = <<ShowToast(IF submits[i].endpoint = "/api/video/upscale"
                                  THEN "Video upscaling started"
                                  ELSE "Video resizing started", "info")>>
    /\ submits' = Overtake(submits, i)
    /\ logged' = <<>>
    /\ UNCHANGED <<section, videoElements, photoVars, uploads, stored, shownJob>>
    /\ UNCHANGED toastVars
    /\ UNCHANGED gameVars

\* the answers without a job_id a session of the model receives at most
MaxUnnamed == 1

\* upscaleVideo / resizeVideo after the await, apiRequest resolved with an
\* answer that names no job (a 2xx answer that is not JSON is returned as the
\* Response object, whose job_id is undefined): the falsy value is stored as
\* the jobId, the timer is armed all the same, the check at once returns at
\* its guard, the toast is shown
VideoSubmitResolvedUnnamed(i) ==
    /\ section = "video"
    /\ i \in DOMAIN submits
    /\ IsVideoSubmit(submits[i])
    /\ Cardinality({t \in DOMAIN intervals : intervals[t].job = Null}) < MaxUnnamed
    /\ intervals' = startStatusPolling(intervals, videoState.statusPollInterval, Null)
    /\ videoState' = [videoState EXCEPT !.jobId = Null,
                                        !.statusPollInterval = Len(intervals')]
    /\ immediateCheck(Null, jobs)
    /\ toasts' = <<ShowToast(IF submits[i].endpoint = "/api/video/upscale"
                               THEN "Video upscaling started"
                               ELSE "Video resizing started", "info")>>
    /\ submits' = Overtake(submits, i)
    /\ logged' = <<>>
    /\ UNCHANGED <<section, videoElements, photoVars, uploads, stored, notified,
                   shownJob>>
    /\ UNCHANGED toastVars
    /\ UNCHANGED gameVars

\* a catch block that leaves the button disabled
submitFailedElements_ButtonStuck(ve, endpoint) ==
    [ve EXCEPT !.processingHidden = TRUE]

\* the DOM properties the catch block of upscaleVideo / resizeVideo leaves
submitFailedElements(ve, endpoint) ==
    IF endpoint = "/api/video/upscale"
    THEN [ve EXCEPT !.processingHidden = TRUE, !.upscaleBtnDisabled = FALSE]
    ELSE [ve EXCEPT !.processingHidden = TRUE, !.resizeBtnDisabled = FALSE]

\* upscaleVideo / resizeVideo after the await, apiRequest threw
VideoSubmitRejected(i, failure) ==
    /\ section = "video"
    /\ i \in DOMAIN submits
    /\ IsVideoSubmit(submits[i])
    /\ videoElements' = submitFailedElements(videoElements, submits[i].endpoint)
    /\ toasts' = <<handleError(apiRequestError(failure),
                                 IF submits[i].endpoint = "/api/video/upscale"
                                 THEN "upscale video" ELSE "resize video")>>
    /\ submits' = Remove(submits, i)
    /\ logged' = <<"API request failed:",
                  IF submits[i].endpoint = "/api/video/upscale"
                  THEN "Error during upscale video:" ELSE "Error during resize video:">>
    /\ UNCHANGED <<section, videoState, photoVars, intervals, uploads, polls,
                   stored, jobs, notified, shownJob>>
    /\ UNCHANGED toastVars
    /\ UNCHANGED gameVars

\* a download that consumes the job: the jobId is null afterwards
DownloadVideo_ConsumesJob ==
    /\ section = "video"
    /\ ~videoElements.downloadHidden
    /\ toasts' = IF videoState.jobId = Null
                THEN <<ShowToast("No processed video available", "error")>>
                ELSE <<ShowToast("Download started!", "success")>>
    /\ logged' = <<>>
    /\ videoState' = [videoState EXCEPT !.jobId = Null]
    /\ UNCHANGED <<section, videoElements, photoVars, intervals,
                   uploads, submits, polls, stored, jobs, notified, shownJob>>
    /\ UNCHANGED toastVars
    /\ UNCHANGED gameVars

\* downloadVideo(): a click on the download button
DownloadVideo ==
    /\ section = "video"
    /\ ~videoElements.downloadHidden
    /\ toasts' = IF videoState.jobId = Null
                THEN <<ShowToast("No processed video available", "error")>>
                ELSE <<ShowToast("Download started!", "success")>>
    /\ logged' = <<>>
    /\ UNCHANGED <<section, videoState, videoElements, photoVars, intervals,
                   uploads, submits, polls, stored, jobs, notified, shownJob>>
    /\ UNCHANGED toastVars
    /\ UNCHANGED gameVars

\* the beforeunload handler: it clears the timer the state holds; the page,
\* its timers and the callbacks of its requests are gone afterwards
PageUnload ==
    /\ section \in {"video", "photo"}
    /\ section' = "unloaded"
    /\ intervals' = clearInterval(intervals, videoState.statusPollInterval)
    /\ toasts' = <<>>
    /\ logged' = <<>>
    /\ UNCHANGED <<videoState, videoElements, photoVars, uploads, submits, polls,
                   stored, jobs, notified, shownJob>>
    /\ UNCHANGED toastVars
    /\ UNCHANGED gameVars

-----------------------------------------------------------------------------
(* Photo panel (src/photo-editor.js) *)

\* resetEffects(): the effects it leaves and the toast it shows
resetEffects == DefaultEffects

resetEffectsToast == Toast("Effects reset to default", "info", 2000)

\* resetPhotoEditor(): the state and the DOM properties it leaves
resetPhotoState(ps) ==
    [ps EXCEPT !.uploadId = Null, !.jobId = Null, !.originalFile = NoFile,
               !.currentEffects = resetEffects]

resetPhotoElements(pe) ==
    [pe EXCEPT !.processBtnDisabled = TRUE, !.processingHidden = TRUE,
               !.downloadHidden = TRUE]

\* handlePhotoFile(file) up to its await
HandlePhotoFile(file) ==
    /\ section = "photo"
    /\ LET validation == validateImageFile(file) IN
       IF ~validation.valid
       THEN /\ toasts' = <<ShowToast(validation.error, "error")>>
            /\ UNCHANGED <<photoState, uploads>>
       ELSE /\ HandlesUsed < MaxPhotoHandles
            /\ photoState' = [photoState EXCEPT !.originalFile = file]
            /\ uploads' = Append(uploads, [endpoint |-> "/api/photo/upload", file |-> file])
            /\ toasts' = <<Toast("Uploading photo...", "info", 3000)>>
    /\ logged' = <<>>
    /\ UNCHANGED <<section, photoElements, videoVars, submits, stored, jobs, notified>>
    /\ UNCHANGED toastVars
    /\ UNCHANGED gameVars

\* handlePhotoFile after the await, uploadFile resolved
PhotoUploadResolved(i) ==
    /\ section = "photo"
    /\ i \in DOMAIN uploads
    /\ stored' = stored + 1
    /\ photoState' = [photoState EXCEPT !.uploadId = stored']
    /\ uploads' = Remove(uploads, i)
    /\ photoElements' = [photoElements EXCEPT !.processBtnDisabled = FALSE]
    /\ toasts' = <<ShowToast("Photo uploaded successfully!", "success")>>
    /\ logged' = <<>>
    /\ UNCHANGED <<section, videoVars, submits, jobs, notified>>
    /\ UNCHANGED toastVars
    /\ UNCHANGED gameVars

\* handlePhotoFile after the await, uploadFile rejected: handleError, then reset
PhotoUploadRejected(i, failure) ==
    /\ section = "photo"
    /\ i \in DOMAIN uploads
    /\ uploads' = Remove(uploads, i)
    /\ photoState' = resetPhotoState(photoState)
    /\ photoElements' = resetPhotoElements(photoElements)
    /\ toasts' = <<handleError(uploadFileError(failure), "upload photo"),
                  resetEffectsToast>>
    /\ logged' = <<"Error during upload photo:">>
    /\ UNCHANGED <<section, videoVars, submits, stored, jobs, notified>>
    /\ UNCHANGED toastVars
    /\ UNCHANGED gameVars

\* the remove button: resetPhotoEditor()
ResetPhotoEditor ==
    /\ section = "photo"
    /\ photoState' = resetPhotoState(photoState)
    /\ photoElements' = resetPhotoElements(photoElements)
    /\ toasts' = <<resetEffectsToast>>
    /\ logged' = <<>>
    /\ UNCHANGED <<section, videoVars, uploads, submits, stored, jobs, notified>>
    /\ UNCHANGED toastVars
    /\ UNCHANGED gameVars

\* the reset button of the effect controls: resetEffects()
ResetEffects ==
    /\ section = "photo"
    /\ photoState' = [photoState EXCEPT !.currentEffects = resetEffects]
    /\ toasts' = <<resetEffectsToast>>
    /\ logged' = <<>>
    /\ UNCHANGED <<section, photoElements, videoVars, uploads, submits, stored, jobs, notified>>
    /\ UNCHANGED toastVars
    /\ UNCHANGED gameVars

\* the values the effect controls are moved to (sliders in tenths), and the
\* controls the session moves: the contrast, color and sharpness sliders have
\* the handler of the brightness slider
FilterValues == {"", "sepia"}
SliderValues == {10, 15}
MovedControls == {"filter", "brightness"}

EffectValues(control) == IF control = "filter" THEN FilterValues ELSE SliderValues

\* the filter select and the four sliders of initEffectControls
SetEffect(control, value) ==
    /\ section = "photo"
    /\ control \in MovedControls
    /\ value \in EffectValues(control)
    /\ photoState' = [photoState EXCEPT !.currentEffects[control] = value]
    /\ toasts' = <<>>
    /\ logged' = <<>>
    /\ UNCHANGED <<section, photoElements, videoVars, uploads, submits, stored, jobs, notified>>
    /\ UNCHANGED toastVars
    /\ UNCHANGED gameVars

\* the effects payload of processPhoto: filter || null
effectsPayload(effects) ==
    [effects EXCEPT !.filter = IF effects.filter = "" THEN "null" ELSE effects.filter]

\* processPhoto() up to its await: a click on the process button
ProcessPhoto ==
    /\ section = "photo"
    /\ ~photoElements.processBtnDisabled
    /\ IF uploadMissing(photoState.uploadId)
       THEN /\ toasts' = <<ShowToast("Please upload a photo first", "error")>>
            /\ UNCHANGED <<photoElements, submits>>
       ELSE /\ HandlesUsed < MaxPhotoHandles
            /\ photoElements' = [photoElements EXCEPT
                                    !.processingHidden = FALSE,
                                    !.downloadHidden = TRUE,
                                    !.processBtnDisabled = TRUE]
            /\ submits' = Append(submits,
                                 [endpoint |-> "/api/photo/process",
                                  body |-> [upload_id |-> photoState.uploadId,
                                            effects |-> effectsPayload(photoState.currentEffects)],
                                  overtaken |-> FALSE])
            /\ toasts' = <<>>
    /\ logged' = <<>>
    /\ UNCHANGED <<section, photoState, videoVars, uploads, stored, jobs, notified>>
    /\ UNCHANGED toastVars
    /\ UNCHANGED gameVars

\* processPhoto after the await, apiRequest resolved with the job's id
PhotoProcessResolved(i) ==
    /\ section = "photo"
    /\ i \in DOMAIN submits
    /\ submits[i].endpoint = "/api/photo/process"
    /\ jobs' = Append(jobs, [status |-> "completed", progress |-> MaxProgress])
    /\ notified' = Append(notified, 0)
    /\ photoState' = [photoState EXCEPT !.jobId = Len(jobs')]
    /\ photoElements' = [photoElements EXCEPT
                            !.processingHidden = TRUE,
                            !.downloadHidden = FALSE,
                            !.processBtnDisabled = FALSE]
    /\ toasts' = <<ShowToast("Photo processed successfully!", "success")>>
    /\ submits' = Remove(submits, i)
    /\ logged' = <<>>
    /\ UNCHANGED <<section, videoVars, uploads, stored>>
    /\ UNCHANGED toastVars
    /\ UNCHANGED gameVars

\* processPhoto after the await, apiRequest threw
PhotoProcessRejected(i, failure) ==
    /\ section = "photo"
    /\ i \in DOMAIN submits
    /\ submits[i].endpoint = "/api/photo/process"
    /\ photoElements' = [photoElements EXCEPT
                            !.processingHidden = TRUE,
                            !.processBtnDisabled = FALSE]
    /\ toasts' = <<handleError(apiRequestError(failure), "process photo")>>
    /\ submits' = Remove(submits, i)
    /\ logged' = <<"API request failed:", "Error during process photo:">>
    /\ UNCHANGED <<section, photoState, videoVars, uploads, stored, jobs, notified>>
    /\ UNCHANGED toastVars
    /\ UNCHANGED gameVars

\* downloadPhoto(): a click on the download button
DownloadPhoto ==
    /\ section = "photo"
    /\ ~photoElements.downloadHidden
    /\ toasts' = IF photoState.jobId = Null
                 THEN <<ShowToast("No processed photo available", "error")>>
                 ELSE <<ShowToast("Download started!", "success")>>
    /\ logged' = <<>>
    /\ UNCHANGED <<section, photoState, photoElements, videoVars, uploads,
                   submits, stored, jobs, notified>>
    /\ UNCHANGED toastVars
    /\ UNCHANGED gameVars

-----------------------------------------------------------------------------
(* The toast container (src/unnamed/part_000, showToast) *)

\* toasts createElement makes in a run of the model
MaxToasts == 2
\* the time up to which the model lets the clock run between two calls
MaxClock == 3000

\* the 0.3 s exit animation: the inner setTimeout's delay
ExitAnimationMs == 300

\* an argument the caller leaves out
NoType == "undefined"
NoDuration == -1

\* the calls the panels make: the three severities or none, the durations
\* 2000 and 3000 or none
CallTypes == {NoType, "info", "success", "error"}
CallDurations == {NoDuration, 2000, 3000}

sessionVars == <<section, videoState, videoElements, photoState, photoElements,
                 intervals, uploads, submits, polls, stored, jobs, notified,
                 shownJob, toasts, logged>>

\* the parameters of showToast(message, type = 'info', duration = 5000)
showToastParameters(message, type, duration) ==
    Toast(message,
          IF type = NoType THEN "info" ELSE type,
          IF duration = NoDuration THEN DefaultToastDuration ELSE duration)

\* no timeout armed by the callback of the outer one
exitTimeout_NoRemoval(tm) == {}

\* the callback of the outer setTimeout arms the inner one
exitTimeout(tm) ==
    {[id |-> tm.id, step |-> "remove", at |-> tm.at + ExitAnimationMs]}

\* showToast(message, type, duration): the element is made with the class of
\* the severity, appended to the container, and the outer timeout is armed
ShowToastCall(message, type, duration) ==
    /\ section = "toast"
    /\ created < MaxToasts
    /\ LET t == showToastParameters(message, type, duration) IN
       /\ container' = Append(container,
                              [id |-> created + 1, className |-> t.type,
                               message |-> t.message, exiting |-> FALSE,
                               shownAt |-> now, duration |-> t.duration])
       /\ timeouts' = timeouts \cup
                         {[id |-> created + 1, step |-> "exit", at |-> now + t.duration]}
    /\ created' = created + 1
    /\ UNCHANGED <<now, sessionVars>>
    /\ UNCHANGED gameVars

\* a pending timeout comes due, the earliest first.  The outer callback sets
\* the exit animation and arms the inner timeout; the inner callback removes
\* the element from the container.
TimeoutFires(tm) ==
    /\ section = "toast"
    /\ tm \in timeouts
    /\ \A other \in timeouts : tm.at <= other.at
    /\ now' = tm.at
    /\ IF tm.step = "exit"
       THEN /\ container' = [i \in DOMAIN container |->
                                IF container[i].id = tm.id
                                THEN [container[i] EXCEPT !.exiting = TRUE]
                                ELSE container[i]]
            /\ timeouts' = (timeouts \ {tm}) \cup exitTimeout(tm)
       ELSE /\ \E i \in DOMAIN container :
                  /\ container[i].id = tm.id
                  /\ container' = Remove(container, i)
            /\ timeouts' = timeouts \ {tm}
    /\ UNCHANGED <<created, sessionVars>>
    /\ UNCHANGED gameVars

\* a second passes in which no timeout comes due
TimePasses ==
    /\ section = "toast"
    /\ now + 1000 <= MaxClock
    /\ \A tm \in timeouts : now + 1000 <= tm.at
    /\ now' = now + 1000
    /\ UNCHANGED <<container, timeouts, created, sessionVars>>
    /\ UNCHANGED gameVars

ToastInit ==
    /\ section = "toast"
    /\ videoState = InitVideoState
    /\ videoElements = InitVideoElements
    /\ photoState = InitPhotoState
    /\ photoElements = InitPhotoElements
    /\ intervals = <<>>
    /\ uploads = <<>>
    /\ submits = <<>>
    /\ polls = <<>>
    /\ stored = 0
    /\ jobs = <<>>
    /\ notified = <<>>
    /\ shownJob = Null
    /\ toasts = <<>>
    /\ logged = <<>>
    /\ container = <<>>
    /\ timeouts = {}
    /\ created = 0
    /\ now = 0
    /\ GameIdle

ToastNext ==
    \/ \E t \in CallTypes, d \in CallDurations : ShowToastCall("Download started!", t, d)
    \/ \E tm \in timeouts : TimeoutFires(tm)
    \/ TimePasses

\* a timeout that is pending does come due
ToastSpec ==
    ToastInit /\ [][ToastNext]_vars /\ WF_vars(\E tm \in timeouts : TimeoutFires(tm))

-----------------------------------------------------------------------------
(* The rock-paper-scissors game (src/12-spanish-rock-paper-scissors.js, 1-119) *)

\* rounds a score of the model adds up to at most
MaxTotal == 4
\* calls of autoPlay in a run of the model
MaxAutoPlayCalls == 3
\* Math.random() is one of the fractions n / RandomSteps, 0 <= n < RandomSteps
RandomSteps == 6

Moves == {"Rock", "Paper", "Scissors"}
RandomNumbers == 0 .. (RandomSteps - 1)

\* the score the script starts from: the one localStorage holds, or the default
StoredScores == {DefaultScore, [wins |-> 1, losses |-> 0, ties |-> 1]}

\* pickComputerMove() for Math.random() = n / RandomSteps
pickComputerMove(n) ==
    IF n >= 0 /\ 3 * n < RandomSteps THEN "Rock"
    ELSE IF 3 * n >= RandomSteps /\ 3 * n < 2 * RandomSteps THEN "Paper"
    ELSE IF 3 * n >= 2 * RandomSteps /\ n < RandomSteps THEN "Scissors"
    ELSE ""

\* a game in which scissors lose against paper
playGameResult_PaperCutsScissors(playerMove, computerMove) ==
    IF playerMove = computerMove THEN "Empate"
    ELSE IF <<playerMove, computerMove>> \in
               {<<"Rock", "Scissors">>, <<"Paper", "Rock">>, <<"Paper", "Scissors">>}
    THEN "Ganaste" ELSE "Perdiste"

\* playGame: the result of the player's move against the computer's
playGameResult(playerMove, computerMove) ==
    IF playerMove = "Scissors"
    THEN (IF computerMove = "Rock" THEN "Perdiste"
          ELSE IF computerMove = "Paper" THEN "Ganaste"
          ELSE IF computerMove = "Scissors" THEN "Empate" ELSE "")
    ELSE IF playerMove = "Paper"
    THEN (IF computerMove = "Rock" THEN "Ganaste"
          ELSE IF computerMove = "Paper" THEN "Empate"
          ELSE IF computerMove = "Scissors" THEN "Perdiste" ELSE "")
    ELSE IF playerMove = "Rock"
    THEN (IF computerMove = "Rock" THEN "Empate"
          ELSE IF computerMove = "Paper" THEN "Perdiste"
          ELSE IF computerMove = "Scissors" THEN "Ganaste" ELSE "")
    ELSE ""

\* playGame: the score after a round with this result
playGameScore(sc, res) ==
    IF res = "Ganaste" THEN [sc EXCEPT !.wins = @ + 1]
    ELSE IF res = "Perdiste" THEN [sc EXCEPT !.losses = @ + 1]
    ELSE IF res = "Empate" THEN [sc EXCEPT !.ties = @ + 1]
    ELSE sc

\* playGame(playerMove), the computer's move drawn with Math.random() = n / RandomSteps
playGame(playerMove, n) ==
    LET computerMove == pickComputerMove(n)
        res == playGameResult(playerMove, computerMove)
    IN /\ score' = playGameScore(score, res)
       /\ result' = res
       /\ moves' = [player |-> playerMove, computer |-> computerMove]

panelVars == <<videoState, videoElements, photoState, photoElements, uploads,
               submits, polls, stored, jobs, notified, shownJob, toasts, logged>>

\* a click on a move button, or the key r, p or s
PlayGame(playerMove, n) ==
    /\ section = "game"
    /\ score.wins + score.losses + score.ties < MaxTotal
    /\ playGame(playerMove, n)
    /\ UNCHANGED <<section, intervals, isAutoPlaying, intervalId, autoPlayCalls>>
    /\ UNCHANGED panelVars
    /\ UNCHANGED toastVars

\* autoPlay that leaves the running interval alone when it is switched off
autoPlayIntervals_NoClear(ivs, playing, id) ==
    IF ~playing THEN setInterval(ivs, Null) ELSE ivs

\* autoPlay(): the timers after the call
autoPlayIntervals(ivs, playing, id) ==
    IF ~playing THEN setInterval(ivs, Null) ELSE clearInterval(ivs, id)

\* autoPlay(): a call of the function
AutoPlay ==
    /\ section = "game"
    /\ autoPlayCalls < MaxAutoPlayCalls
    /\ intervals' = autoPlayIntervals(intervals, isAutoPlaying, intervalId)
    /\ intervalId' = IF ~isAutoPlaying THEN Len(intervals') ELSE intervalId
    /\ isAutoPlaying' = ~isAutoPlaying
    /\ autoPlayCalls' = autoPlayCalls + 1
    /\ UNCHANGED <<section, score, result, moves>>
    /\ UNCHANGED panelVars
    /\ UNCHANGED toastVars

\* a tick of a live auto-play interval: playGame(pickComputerMove())
AutoPlayTick(t, n1, n2) ==
    /\ section = "game"
    /\ t \in LiveTimers
    /\ score.wins + score.losses + score.ties < MaxTotal
    /\ playGame(pickComputerMove(n1), n2)
    /\ UNCHANGED <<section, intervals, isAutoPlaying, intervalId, autoPlayCalls>>
    /\ UNCHANGED panelVars
    /\ UNCHANGED toastVars

GameInit ==
    /\ section = "game"
    /\ videoState = InitVideoState
    /\ videoElements = InitVideoElements
    /\ photoState = InitPhotoState
    /\ photoElements = InitPhotoElements
    /\ intervals = <<>>
    /\ uploads = <<>>
    /\ submits = <<>>
    /\ polls = <<>>
    /\ stored = 0
    /\ jobs = <<>>
    /\ notified = <<>>
    /\ shownJob = Null
    /\ toasts = <<>>
    /\ logged = <<>>
    /\ container = <<>>
    /\ timeouts = {}
    /\ created = 0
    /\ now = 0
    /\ score \in StoredScores
    /\ result = ""
    /\ moves = NoMoves
    /\ isAutoPlaying = FALSE
    /\ intervalId = Null
    /\ autoPlayCalls = 0

GameNext ==
    \/ \E m \in Moves, n \in RandomNumbers : PlayGame(m, n)
    \/ AutoPlay
    \/ \E t \in DOMAIN intervals : \E n1 \in RandomNumbers, n2 \in RandomNumbers :
          AutoPlayTick(t, n1, n2)

GameSpec == GameInit /\ [][GameNext]_vars

-----------------------------------------------------------------------------
Next ==
    \/ \E f \in VideoFiles : HandleVideoFile(f)
    \/ \E i \in DOMAIN uploads : VideoUploadResolved(i)
    \/ \E i \in DOMAIN uploads, x \in UploadFailures : VideoUploadRejected(i, x)
    \/ ResetVideoEditor
    \/ UpscaleVideo
    \/ ResizeVideo
    \/ \E i \in DOMAIN submits : VideoSubmitResolved(i)
    \/ \E i \in DOMAIN submits, x \in ApiFailures : VideoSubmitRejected(i, x)
    \/ \E t \in DOMAIN intervals : TimerTick(t)
    \/ \E i \in DOMAIN polls : \E b \in StatusBodies(polls[i].state) : PollResolved(i, b)
    \/ \E i \in DOMAIN polls, x \in ApiFailures : PollRejected(i, x)
    \/ \E o \in MovedOptions : \E v \in OptionValues(o) : SetVideoOption(o, v)
    \/ DownloadVideo
    \/ \E f \in PhotoFiles : HandlePhotoFile(f)
    \/ \E i \in DOMAIN uploads : PhotoUploadResolved(i)
    \/ \E i \in DOMAIN uploads, x \in UploadFailures : PhotoUploadRejected(i, x)
    \/ ResetPhotoEditor
    \/ ResetEffects
    \/ \E c \in MovedControls : \E v \in EffectValues(c) : SetEffect(c, v)
    \/ ProcessPhoto
    \/ \E i \in DOMAIN submits : PhotoProcessResolved(i)
    \/ \E i \in DOMAIN submits, x \in ApiFailures : PhotoProcessRejected(i, x)
    \/ DownloadPhoto
    \/ PageUnload

Spec == Init /\ [][Next]_vars

\* the sessions in which the answer to a submission may also name no job
AnyAnswerNext ==
    \/ Next
    \/ \E i \in DOMAIN submits : VideoSubmitResolvedUnnamed(i)

AnyAnswerSpec == Init /\ [][AnyAnswerNext]_vars

\* a tick whose status request the service answers from a terminal state of the job
TerminalTick ==
    \E t \in DOMAIN intervals :
        /\ TimerTick(t)
        /\ polls'[Len(polls')].state.status \in {"completed", "failed"}

\* a status response is handled / one that reports a terminal status is handled
PollSettles ==
    \E i \in DOMAIN polls :
        \/ \E b \in StatusBodies(polls[i].state) : PollResolved(i, b)
        \/ \E x \in ApiFailures : PollRejected(i, x)

TerminalPollSucceeds ==
    \E i \in DOMAIN polls : \E b \in StatusBodies(polls[i].state) :
        /\ b.status \in {"completed", "failed"}
        /\ PollResolved(i, b)

\* Fair scheduling: every status request is settled, which lets a live timer
\* tick again; the service brings the job a live timer polls to a terminal
\* state; a status request answered from a terminal state does sooner or later
\* succeed.  The clicks of the user are under no obligation.
Fairness ==
    /\ WF_vars(PollSettles)
    /\ SF_vars(TerminalTick)
    /\ SF_vars(TerminalPollSucceeds)

FairSpec == Init /\ [][Next]_vars /\ Fairness

-----------------------------------------------------------------------------
(* Claims *)

\* what the file-acceptance policy calls a bad file, stated from the policy:
\* a type outside the kind's allow-list or a size over the kind's limit
BadVideoFile(f) == f.type \notin VideoTypes \/ f.size > 500 * 1024 * 1024
BadImageFile(f) == f.type \notin ImageTypes \/ f.size > 50 * 1024 * 1024

\* what a rejection leaves: no request of any kind goes out, exactly one
\* notification is shown and it is an error
RejectedLocally ==
    /\ uploads' = uploads
    /\ submits' = submits
    /\ polls' = polls
    /\ Len(toasts') = 1
    /\ toasts'[1].type = "error"

\* C1: handleVideoFile / handlePhotoFile given a file whose type is outside the
\* allow-list or whose size exceeds the limit (500MB video, 50MB image) issues no
\* upload request, shows an error notification and leaves uploadId, jobId and
\* originalFile as they were.
C1_BadFileRejectedBeforeNetwork ==
    [][ /\ \A f \in VideoFiles :
            (BadVideoFile(f) /\ HandleVideoFile(f)) =>
                /\ RejectedLocally
                /\ videoState'.uploadId = videoState.uploadId
                /\ videoState'.jobId = videoState.jobId
                /\ videoState'.originalFile = videoState.originalFile
        /\ \A f \in PhotoFiles :
            (BadImageFile(f) /\ HandlePhotoFile(f)) =>
                /\ RejectedLocally
                /\ photoState'.uploadId = photoState.uploadId
                /\ photoState'.jobId = photoState.jobId
                /\ photoState'.originalFile = photoState.originalFile
      ]_vars

\* C1 witness: an oversized video was just rejected in a session that already
\* holds an upload, a job and a selected file.
C1_Witness ==
    /\ section = "video"
    /\ toasts = <<ShowToast(SizeErrorVideo(NoFile), "error")>>
    /\ videoState.uploadId # Null
    /\ videoState.jobId # Null
    /\ videoState.originalFile # NoFile

\* C2: at most one interval timer is live; the live one is the one
\* statusPollInterval holds and it polls the job it was created for, which is
\* the active jobId.  A submission that starts polling while a timer is live
\* therefore leaves the prior timer cleared.
C2_OnePollingLoop ==
    /\ Cardinality(LiveTimers) <= 1
    /\ \A t \in LiveTimers :
        /\ t = videoState.statusPollInterval
        /\ videoState.jobId # Null
        /\ intervals[t].job = videoState.jobId

\* C2 witness: a second polling loop was started while the first job was still
\* being polled (no terminal status seen, no reset): the first timer is
\* cleared, the second is live, a status request of the first job is in flight.
C2_Witness ==
    /\ Len(intervals) = 2
    /\ LiveTimers = {2}
    /\ videoState.uploadId # Null
    /\ \A j \in DOMAIN notified : notified[j] = 0
    /\ \E i \in DOMAIN polls : polls[i].job = 1

TerminalStatus == {"completed", "failed"}

\* the timer statusPollInterval holds is live and polls job j
PollingFor(j) ==
    /\ videoState.jobId = j
    /\ videoState.statusPollInterval \in LiveTimers

\* this step handles a status response for job j that reports a terminal status
TerminalResponseFor(j) ==
    \E i \in DOMAIN polls :
        /\ polls[i].job = j
        /\ polls[i].state.status \in TerminalStatus
        /\ polls' = Remove(polls, i)

\* this step issues a status request for job j
PollIssuedFor(j) ==
    /\ Len(polls') = Len(polls) + 1
    /\ polls'[Len(polls')].job = j

\* C3, as claimed: the polling loop of a job stops only when a status response
\* for that job reports 'completed' or 'failed' (or when the session is reset
\* or a new submission replaces the job), and once a terminal status has been
\* seen for a job no status request is issued for it again.
C3_PollsUntilTerminal ==
    [][ \A j \in DOMAIN jobs :
          /\ (PollingFor(j) /\ ~PollingFor(j)') =>
                \/ TerminalResponseFor(j)
                \/ videoState'.jobId # j
          /\ notified[j] > 0 => ~PollIssuedFor(j)
      ]_vars

\* C4, as claimed: between two consecutive status responses shown for the same
\* job the progress on display does not decrease.
C4_ProgressNonDecreasing ==
    [][ (shownJob # Null /\ shownJob' = shownJob) =>
            videoElements'.progressPercent >= videoElements.progressPercent
      ]_vars

\* C5: a status request that fails leaves the timers, videoState (jobId,
\* uploadId, statusPollInterval) and the processing and download sections as
\* they were and shows no notification; the timer that was live stays live, so
\* its next tick polls again.  Nothing counts the failures.
C5_FailedPollChangesNothing ==
    [][ \A i \in DOMAIN polls : \A x \in ApiFailures :
          PollRejected(i, x) =>
            /\ toasts' = <<>>
            /\ intervals' = intervals
            /\ LiveTimers' = LiveTimers
            /\ videoState' = videoState
            /\ videoElements'.processingHidden = videoElements.processingHidden
            /\ videoElements'.downloadHidden = videoElements.downloadHidden
      ]_vars

\* C5 witness: a status request has just failed, the timer is still live and
\* the job is still active.
C5_Witness ==
    /\ logged = <<"API request failed:", "Error checking video status:">>
    /\ toasts = <<>>
    /\ LiveTimers # {}
    /\ videoState.jobId # Null

\* the text the failure notification must carry for a response
ExpectedFailureText(body) ==
    IF body.error \in {NoErrorField, ""} THEN "Video processing failed" ELSE body.error

\* C6: a status response with status 'failed' clears the timer
\* statusPollInterval holds, hides the processing section, enables both submit
\* buttons and shows one error notification whose text is the response's error
\* description, or 'Video processing failed' when it has none.
C6_FailedStatusSurfaced ==
    [][ \A i \in DOMAIN polls : \A b \in StatusBodies(polls[i].state) :
          (b.status = "failed" /\ PollResolved(i, b)) =>
            /\ videoState'.statusPollInterval = Null
            /\ videoState.statusPollInterval \notin LiveTimers'
            /\ videoElements'.processingHidden
            /\ ~videoElements'.upscaleBtnDisabled
            /\ ~videoElements'.resizeBtnDisabled
            /\ toasts' = <<ShowToast(ExpectedFailureText(b), "error")>>
      ]_vars

\* C6 witness: the failure of a job that was being polled has just been shown
\* with the service's description.
C6_Witness ==
    /\ toasts = <<ShowToast("decode error", "error")>>
    /\ videoState.jobId # Null
    /\ videoState.statusPollInterval = Null
    /\ LiveTimers = {}
    /\ videoElements.processingHidden

\* C7, as claimed: no job ever gets its terminal notification twice.
C7_TerminalNotificationOnce ==
    \A j \in DOMAIN notified : notified[j] <= 1

\* what a refused submission leaves
SubmissionRefused ==
    /\ submits' = submits
    /\ Len(toasts') = 1
    /\ toasts'[1].type = "error"
    /\ intervals' = intervals

\* C8: a submission started while uploadId is null sends no request, shows an
\* error notification and leaves jobId, the timer and the processing and
\* download sections as they were; no submit request in flight ever carries a
\* null upload id.
C8_NoSubmitWithoutUpload ==
    [][ /\ \A i \in DOMAIN submits' : submits'[i].body.upload_id # Null
        /\ (videoState.uploadId = Null /\ (UpscaleVideo \/ ResizeVideo)) =>
              /\ SubmissionRefused
              /\ videoState' = videoState
              /\ videoElements'.processingHidden = videoElements.processingHidden
              /\ videoElements'.downloadHidden = videoElements.downloadHidden
        /\ (photoState.uploadId = Null /\ ProcessPhoto) =>
              /\ SubmissionRefused
              /\ photoState' = photoState
              /\ photoElements'.processingHidden = photoElements.processingHidden
              /\ photoElements'.downloadHidden = photoElements.downloadHidden
      ]_vars

\* C8 witness: a click on a submit button of the video panel was just refused
\* for want of an upload.
C8_Witness ==
    /\ section = "video"
    /\ videoState.uploadId = Null
    /\ toasts = <<ShowToast("Please upload a video first", "error")>>

\* C9: when the submit request of upscaleVideo / resizeVideo fails, jobId and
\* statusPollInterval keep their values, no timer is created and no status
\* request is issued, the processing section is hidden, the button of that
\* submission is enabled and one error notification is shown.
C9_FailedSubmitStoresNothing ==
    [][ \A i \in DOMAIN submits : \A x \in ApiFailures :
          VideoSubmitRejected(i, x) =>
            /\ videoState' = videoState
            /\ intervals' = intervals
            /\ polls' = polls
            /\ videoElements'.processingHidden
            /\ submits[i].endpoint = "/api/video/upscale" =>
                    ~videoElements'.upscaleBtnDisabled
            /\ submits[i].endpoint = "/api/video/resize" =>
                    ~videoElements'.resizeBtnDisabled
            /\ Len(toasts') = 1
            /\ toasts'[1].type = "error"
      ]_vars

\* C9 witness: a video submit request has just failed with a non-success status
\* while an earlier job is the active one.
C9_Witness ==
    /\ section = "video"
    /\ toasts = <<ShowToast("HTTP error! status", "error")>>
    /\ videoElements.processingHidden
    /\ videoState.jobId # Null

\* C10: the step that handles a successful submit response stores the new job
\* id as jobId, leaves the timer statusPollInterval holds live, and issues the
\* first status request for that job in the same step.
C10_PollingStartsAtOnce ==
    [][ \A i \in DOMAIN submits :
          VideoSubmitResolved(i) =>
            /\ videoState'.jobId = Len(jobs')
            /\ Len(jobs') = Len(jobs) + 1
            /\ videoState'.statusPollInterval \in LiveTimers'
            /\ PollIssuedFor(videoState'.jobId)
      ]_vars

\* C10 witness: a submit response has just been handled; the request issued
\* last is for the job it returned and the timer is live.
C10_Witness ==
    /\ Len(toasts) = 1
    /\ toasts[1].message \in {"Video upscaling started", "Video resizing started"}
    /\ videoState.jobId = Len(jobs)
    /\ polls # <<>>
    /\ polls[Len(polls)].job = videoState.jobId
    /\ videoState.statusPollInterval \in LiveTimers

\* C11, as claimed: a status request is only ever issued for a job whose
\* submit response has been handled, and the responses to the status requests
\* of one job are applied in the order the requests were issued (polls holds
\* the requests in flight in that order): the response a step handles answers
\* the oldest request in flight for its job.
C11_PollsAppliedInOrder ==
    [][ /\ \A i \in DOMAIN polls' : polls'[i].job \in DOMAIN jobs'
        /\ (\E i \in DOMAIN polls : \E b \in StatusBodies(polls[i].state) :
                PollResolved(i, b))
            => \E i \in DOMAIN polls : \E b \in StatusBodies(polls[i].state) :
                /\ PollResolved(i, b)
                /\ \A k \in 1..(i - 1) : polls[k].job # polls[i].job
      ]_vars

\* C12, as claimed: resetVideoEditor and the unload of the page leave no timer
\* live and send nothing, and no status request is issued afterwards until a
\* submission is started after the reset.  While uploadId is null no
\* submission can have been started since the last reset, so no step taken
\* with uploadId null (or after the unload) issues a status request.
C12_NoPollAfterReset ==
    [][ /\ (ResetVideoEditor \/ PageUnload) =>
              /\ LiveTimers' = {}
              /\ uploads' = uploads /\ submits' = submits /\ polls' = polls
        /\ (section = "unloaded" \/ videoState.uploadId = Null) =>
              Len(polls') <= Len(polls)
      ]_vars

\* the job a panel holds is absent or has not completed
NotCompleted(jobId) == jobId = Null \/ jobs[jobId].status # "completed"

\* the retrieval was refused: one error notification, no 'Download started!'
NotReady == Len(toasts') = 1 /\ toasts'[1].type = "error"

\* C13, as claimed: downloadVideo / downloadPhoto invoked while the job the
\* panel holds is absent, still processing or failed ends with an error
\* notification and triggers no download.
C13_RetrievalOnlyWhenCompleted ==
    [][ /\ (DownloadVideo /\ NotCompleted(videoState.jobId)) => NotReady
        /\ (DownloadPhoto /\ NotCompleted(photoState.jobId)) => NotReady
      ]_vars

\* C14, as claimed: a reset leaves uploadId and jobId null, and they stay null
\* until an upload (a submission) started after the reset succeeds.
\* originalFile is null only while no upload has been started since the last
\* reset, and uploadId is null only while none has succeeded since; so a step
\* from such a state leaves uploadId (jobId) null.
C14_HandlesDiscardedOnReset ==
    [][ /\ ResetVideoEditor =>
              (videoState'.uploadId = Null /\ videoState'.jobId = Null)
        /\ ResetPhotoEditor =>
              (photoState'.uploadId = Null /\ photoState'.jobId = Null)
        /\ (videoState.originalFile = NoFile /\ videoState.uploadId = Null) =>
              videoState'.uploadId = Null
        /\ (videoState.uploadId = Null /\ videoState.jobId = Null) =>
              videoState'.jobId = Null
        /\ (photoState.originalFile = NoFile /\ photoState.uploadId = Null) =>
              photoState'.uploadId = Null
        /\ (photoState.uploadId = Null /\ photoState.jobId = Null) =>
              photoState'.jobId = Null
      ]_vars

\* the clean state of the video panel
CleanVideoPanel ==
    /\ videoState'.uploadId = Null
    /\ videoState'.jobId = Null
    /\ videoState'.originalFile = NoFile
    /\ videoState'.statusPollInterval = Null
    /\ LiveTimers' = {}
    /\ videoElements'.upscaleBtnDisabled
    /\ videoElements'.resizeBtnDisabled
    /\ videoElements'.processingHidden
    /\ videoElements'.downloadHidden

\* the clean state of the photo panel; the sliders are in tenths, 10 is 1.0
CleanPhotoPanel ==
    /\ photoState'.uploadId = Null
    /\ photoState'.jobId = Null
    /\ photoState'.originalFile = NoFile
    /\ photoState'.currentEffects =
          [filter |-> "", brightness |-> 10, contrast |-> 10, color |-> 10,
           sharpness |-> 10]
    /\ photoElements'.processBtnDisabled
    /\ photoElements'.processingHidden
    /\ photoElements'.downloadHidden

\* C15: a reset taken in any reachable state of a panel leaves uploadId, jobId
\* and originalFile null, no timer live, the submit buttons disabled, the
\* processing and download sections hidden and (photo panel) the effects at
\* their defaults.
C15_ResetGivesCleanState ==
    [][ /\ ResetVideoEditor => CleanVideoPanel
        /\ ResetPhotoEditor => CleanPhotoPanel
      ]_vars

\* C15 witness: the video panel is clean again after a job that was submitted
\* and reported as failed.
C15_Witness ==
    /\ section = "video"
    /\ \E j \in DOMAIN jobs : jobs[j].status = "failed" /\ notified[j] > 0
    /\ videoState.uploadId = Null
    /\ videoState.jobId = Null
    /\ videoState.originalFile = NoFile
    /\ LiveTimers = {}
    /\ videoElements.upscaleBtnDisabled
    /\ videoElements.resizeBtnDisabled
    /\ videoElements.processingHidden
    /\ videoElements.downloadHidden
    /\ toasts = <<>>

\* no notification of a success is shown by the step
NoSuccessShown == \A k \in DOMAIN toasts' : toasts'[k].type # "success"

\* C16, as claimed: after a reset, until a new upload is started, the responses
\* of requests issued before the reset leave the torn-down panel alone.
\* originalFile is null only while no upload has been started since the last
\* reset (or since the page was loaded); every request in flight then dates
\* from before the reset, so a step from such a state with both sections
\* hidden leaves them hidden and shows no success notification.
C16_NoCallbackAfterReset ==
    [][ /\ ( /\ section = "video"
             /\ videoState.originalFile = NoFile
             /\ videoElements.processingHidden
             /\ videoElements.downloadHidden )
           => /\ videoElements'.processingHidden
              /\ videoElements'.downloadHidden
              /\ NoSuccessShown
        /\ ( /\ section = "photo"
             /\ photoState.originalFile = NoFile
             /\ photoElements.processingHidden
             /\ photoElements.downloadHidden )
           => /\ photoElements'.processingHidden
              /\ photoElements'.downloadHidden
              /\ NoSuccessShown
      ]_vars

\* C17, as claimed: of two overlapping submissions the one started later
\* supersedes the other in whatever order the submit responses arrive; so the
\* response of a submission that a later-started one has overtaken does not
\* replace the active job or its polling loop.
C17_LaterSubmissionSupersedes ==
    [][ \A i \in DOMAIN submits :
          (VideoSubmitResolved(i) /\ submits[i].overtaken /\ videoState.jobId # Null) =>
              /\ videoState'.jobId = videoState.jobId
              /\ LiveTimers' = LiveTimers
      ]_vars

\* the handles the service gives out in a session
JobIds == 1..MaxHandles

\* C18, as claimed (under FairSpec): a job that is the active one with its
\* polling loop running is sooner or later seen in a terminal state by a
\* status response of its own, unless the session is reset, the page unloaded
\* or the job replaced first.
C18_EveryJobResolved ==
    \A j \in JobIds :
        PollingFor(j) ~> \/ (j \in DOMAIN notified /\ notified[j] > 0)
                         \/ videoState.jobId # j
                         \/ section = "unloaded"

\* a file of an allowed video type within the size limit
GoodVideoFile(f) == f.type \in VideoTypes /\ f.size <= 500 * 1024 * 1024

\* C19: every step of the happy path does what the scenario says.  A good file
\* is stored and uploaded; the upload's response stores the handle and enables
\* the submit buttons; a click on Upscale sends the handle with the default
\* parameters; the submit response stores the job's handle; a 'processing'
\* status response leaves the timer running and shows the progress it
\* carries; a 'completed' one stops the timer and shows the download section;
\* the download of a stored job then starts.
C19_HappyPathSteps ==
    [][ /\ \A f \in VideoFiles : (GoodVideoFile(f) /\ HandleVideoFile(f)) =>
              /\ videoState'.originalFile = f
              /\ Len(uploads') = Len(uploads) + 1
              /\ uploads'[Len(uploads')].file = f
        /\ \A i \in DOMAIN uploads : VideoUploadResolved(i) =>
              /\ videoState'.uploadId = stored'
              /\ videoState'.uploadId # Null
              /\ ~videoElements'.upscaleBtnDisabled
              /\ ~videoElements'.resizeBtnDisabled
        /\ (UpscaleVideo /\ videoState.uploadId # Null) =>
              /\ Len(submits') = Len(submits) + 1
              /\ submits'[Len(submits')].body =
                    [upload_id |-> videoState.uploadId, resolution |-> "1080p",
                     quality |-> "high"]
        /\ \A i \in DOMAIN submits : VideoSubmitResolved(i) =>
              /\ videoState'.jobId = Len(jobs')
              /\ videoState'.jobId # Null
        /\ \A i \in DOMAIN polls : \A b \in StatusBodies(polls[i].state) :
              PollResolved(i, b) =>
                /\ b.status = "processing" =>
                      /\ LiveTimers' = LiveTimers
                      /\ videoState' = videoState
                      /\ b.progress # NoProgress =>
                            videoElements'.progressPercent = b.progress
                      /\ toasts' = <<>>
                /\ b.status = "completed" =>
                      /\ LiveTimers' = LiveTimers \ {videoState.statusPollInterval}
                      /\ videoState'.statusPollInterval = Null
                      /\ ~videoElements'.downloadHidden
                      /\ videoElements'.processingHidden
        /\ (DownloadVideo /\ videoState.jobId # Null) =>
              toasts' = <<ShowToast("Download started!", "success")>>
      ]_vars

\* C19 witness: the end of the happy path.  One 10MB video was uploaded (U1),
\* one job submitted (J1) and polled by the one timer ever created, the job
\* completed at 100%, its one notification was shown, and the download of J1
\* has just started.
C19_Witness ==
    /\ section = "video"
    /\ stored = 1
    /\ videoState.uploadId = 1
    /\ videoState.originalFile = [type |-> "video/mp4", size |-> 10 * 1024 * 1024]
    /\ Len(jobs) = 1
    /\ videoState.jobId = 1
    /\ jobs[1] = [status |-> "completed", progress |-> MaxProgress]
    /\ Len(intervals) = 1
    /\ LiveTimers = {}
    /\ notified = <<1>>
    /\ videoElements.progressPercent = MaxProgress
    /\ ~videoElements.downloadHidden
    /\ videoElements.processingHidden
    /\ toasts = <<ShowToast("Download started!", "success")>>

\* the message a failed upload must show: the error text of the response body
\* when it has one, one of the default messages otherwise
UploadMessageOk(failure, message) ==
    IF failure = "status+error"
    THEN message = "error text of the response"
    ELSE message \in {"Upload failed with status", "Invalid JSON response",
                      "Network error during upload", "Upload aborted"}

\* C20: when an upload fails, the panel shows as an error the error text of
\* the response body if it has one and a default message otherwise, and is
\* reset: uploadId is null and the submit buttons are disabled.
C20_FailedUploadShownAndReset ==
    [][ \A i \in DOMAIN uploads : \A x \in UploadFailures :
          /\ VideoUploadRejected(i, x) =>
                /\ Len(toasts') = 1
                /\ toasts'[1].type = "error"
                /\ UploadMessageOk(x, toasts'[1].message)
                /\ videoState'.uploadId = Null
                /\ videoElements'.upscaleBtnDisabled
                /\ videoElements'.resizeBtnDisabled
          /\ PhotoUploadRejected(i, x) =>
                /\ toasts'[1].type = "error"
                /\ UploadMessageOk(x, toasts'[1].message)
                /\ \A k \in 2..Len(toasts') : toasts'[k].type = "info"
                /\ photoState'.uploadId = Null
                /\ photoElements'.processBtnDisabled
      ]_vars

\* C20 witness: a second upload of the video panel has just failed with an
\* error text in the response; the handle of the first upload is gone.
C20_Witness ==
    /\ section = "video"
    /\ stored >= 1
    /\ toasts = <<ShowToast("error text of the response", "error")>>
    /\ logged = <<"Error during upload video:">>
    /\ videoState.uploadId = Null
    /\ videoElements.upscaleBtnDisabled
    /\ videoElements.resizeBtnDisabled

(* ------------------------------------------------------------------------ *)
\* C21: the parameters of a submission are fixed when it is started.  The
\* payload a submission sends is built from the parameter values of that
\* moment; a later change of a parameter (a video option, a photo effect,
\* resetEffects) changes neither a payload already sent nor uploadId, jobId or
\* the polling timer; and no step at all rewrites a request in flight.
SentSubmissions(reqs) ==
    {[endpoint |-> reqs[i].endpoint, body |-> reqs[i].body] : i \in DOMAIN reqs}

ParameterChange ==
    \/ \E o \in MovedOptions : \E v \in OptionValues(o) : SetVideoOption(o, v)
    \/ \E c \in MovedControls : \E v \in EffectValues(c) : SetEffect(c, v)
    \/ ResetEffects

C21_ParametersFixedAtSubmission ==
    [][ /\ (UpscaleVideo /\ videoState.uploadId # Null) =>
              /\ Len(submits') = Len(submits) + 1
              /\ submits'[Len(submits')].body =
                    [upload_id |-> videoState.uploadId,
                     resolution |-> videoState.selectedResolution,
                     quality |-> videoState.quality]
        /\ (ResizeVideo /\ videoState.uploadId # Null) =>
              /\ Len(submits') = Len(submits) + 1
              /\ submits'[Len(submits')].body =
                    [upload_id |-> videoState.uploadId,
                     resize_type |-> videoState.resizeMethod]
        /\ (ProcessPhoto /\ photoState.uploadId # Null) =>
              /\ Len(submits') = Len(submits) + 1
              /\ submits'[Len(submits')].body.upload_id = photoState.uploadId
              /\ \A c \in {"brightness", "contrast", "color", "sharpness"} :
                    submits'[Len(submits')].body.effects[c] =
                        photoState.currentEffects[c]
              /\ submits'[Len(submits')].body.effects.filter =
                    IF photoState.currentEffects.filter = ""
                    THEN "null" ELSE photoState.currentEffects.filter
        /\ ParameterChange =>
              /\ submits' = submits
              /\ polls' = polls
              /\ intervals' = intervals
              /\ videoState'.uploadId = videoState.uploadId
              /\ videoState'.jobId = videoState.jobId
              /\ videoState'.statusPollInterval = videoState.statusPollInterval
              /\ photoState'.uploadId = photoState.uploadId
              /\ photoState'.jobId = photoState.jobId
        /\ Len(submits') <= Len(submits) =>
              SentSubmissions(submits') \subseteq SentSubmissions(submits)
      ]_vars

\* a resize request is in flight for the current upload, and the resize method
\* has been changed since it was sent
C21_Witness ==
    /\ section = "video"
    /\ \E i \in DOMAIN submits :
          /\ submits[i].endpoint = "/api/video/resize"
          /\ submits[i].body.upload_id = videoState.uploadId
          /\ submits[i].body.resize_type # videoState.resizeMethod

(* ------------------------------------------------------------------------ *)
\* C22: validateImageFile (limit 50MB) and validateVideoFile (limit 500MB)
\* answer valid exactly for a file whose type is on the kind's list and whose
\* size is at most the limit, a file of exactly the limit included; a file
\* failing both checks gets the type error; every rejection carries a
\* non-empty error.  The file a panel holds has therefore passed both checks.
ImageTypeError == validateImageFile([type |-> "application/pdf", size |-> TenMB]).error
VideoTypeError == validateVideoFile([type |-> "application/pdf", size |-> TenMB]).error

C22_ValidatorsExact ==
    /\ \A f \in PhotoFiles :
          LET r == validateImageFile(f) IN
          /\ r.valid <=> (f.type \in ImageTypes /\ f.size <= ImageMaxSize)
          /\ ~r.valid => r.error # ""
          /\ f.type \notin ImageTypes => r.error = ImageTypeError
          /\ (f.type \in ImageTypes /\ ~r.valid) => r.error # ImageTypeError
    /\ \A f \in VideoFiles :
          LET r == validateVideoFile(f) IN
          /\ r.valid <=> (f.type \in VideoTypes /\ f.size <= VideoMaxSize)
          /\ ~r.valid => r.error # ""
          /\ f.type \notin VideoTypes => r.error = VideoTypeError
          /\ (f.type \in VideoTypes /\ ~r.valid) => r.error # VideoTypeError
    /\ ImageTypeError # "" /\ VideoTypeError # ""
    /\ ImageMaxSize = 52428800 /\ VideoMaxSize = 524288000
    /\ photoState.originalFile # NoFile =>
          /\ photoState.originalFile.type \in ImageTypes
          /\ photoState.originalFile.size <= ImageMaxSize
    /\ videoState.originalFile # NoFile =>
          /\ videoState.originalFile.type \in VideoTypes
          /\ videoState.originalFile.size <= VideoMaxSize

\* a photo of exactly 50MB has been accepted and is being uploaded
C22_Witness ==
    /\ section = "photo"
    /\ photoState.originalFile.size = ImageMaxSize
    /\ \E i \in DOMAIN uploads : uploads[i].file = photoState.originalFile

(* ------------------------------------------------------------------------ *)
\* C23: a poll without an active job is a no-op.  Whenever jobId is null, a
\* tick of the timer and the direct call of checkVideoStatus (the check at
\* once of startStatusPolling) issue no status request, and the tick changes
\* nothing of the session or of the panel.
C23_PollWithoutJobIsNoOp ==
    [][ /\ \A t \in DOMAIN intervals :
              (TimerTick(t) /\ videoState.jobId = Null) =>
                  /\ polls' = polls
                  /\ jobs' = jobs
                  /\ videoState' = videoState
                  /\ videoElements' = videoElements
                  /\ intervals' = intervals
                  /\ toasts' = <<>>
                  /\ logged' = <<>>
                  /\ UNCHANGED <<uploads, submits, stored, notified, shownJob>>
        /\ \A i \in DOMAIN submits :
              (VideoSubmitResolvedUnnamed(i) /\ videoState'.jobId = Null) =>
                  /\ polls' = polls
                  /\ jobs' = jobs
      ]_vars

\* the timer is live, no job is active, and a tick has passed without a
\* request: the toast of the submission is gone, nothing is in flight
C23_Witness ==
    /\ section = "video"
    /\ LiveTimers # {}
    /\ videoState.jobId = Null
    /\ polls = <<>>
    /\ submits = <<>>
    /\ uploads = <<>>
    /\ toasts = <<>>

(* ------------------------------------------------------------------------ *)
\* C24: every notification of showToast dismisses itself.  The element is
\* added to the container with the severity of the call (info when the call
\* names none); while it is there exactly one timeout is pending for it, so
\* it is removed once and only once, at the moment the duration of the call
\* (5000 ms when the call names none) plus the 300 ms of the exit animation
\* has passed; and every element that is in the container does leave it.
ToastElement(id) == \E i \in DOMAIN container : container[i].id = id

ToastPending ==
    /\ \A i \in DOMAIN container :
          LET e == container[i]
              due == e.shownAt + e.duration
          IN /\ e.className \in {"info", "success", "error"}
             /\ e.id <= created
             /\ \A j \in DOMAIN container : j # i => container[j].id # e.id
             /\ {tm \in timeouts : tm.id = e.id} =
                   {IF e.exiting
                    THEN [id |-> e.id, step |-> "remove", at |-> due + ExitAnimationMs]
                    ELSE [id |-> e.id, step |-> "exit", at |-> due]}
             /\ now <= due + ExitAnimationMs
    /\ \A tm \in timeouts : ToastElement(tm.id)

ToastStep ==
    /\ \A t \in CallTypes, d \in CallDurations :
          ShowToastCall("Download started!", t, d) =>
              LET e == container'[Len(container')] IN
              /\ container' = Append(container, e)
              /\ e.className = (IF t = NoType THEN "info" ELSE t)
              /\ e.duration = (IF d = NoDuration THEN 5000 ELSE d)
              /\ e.shownAt = now
              /\ ~e.exiting
    /\ Len(container') < Len(container) =>
          \E i \in DOMAIN container :
              /\ container' = Remove(container, i)
              /\ container[i].exiting
              /\ now' = container[i].shownAt + container[i].duration + 300
    /\ \A id \in 1..MaxToasts :
          (~ToastElement(id) /\ ToastElement(id)') => id = created + 1

C24_ToastsAutoDismiss ==
    /\ []ToastPending
    /\ [][ToastStep]_vars
    /\ \A id \in 1..MaxToasts : ToastElement(id) ~> ~ToastElement(id)

\* a toast shown without a duration at the load of the page has been removed
\* 5300 ms later, and a second one is still in the container
C24_Witness ==
    /\ section = "toast"
    /\ now = DefaultToastDuration + ExitAnimationMs
    /\ created = 2
    /\ Len(container) = 1
    /\ container[1].id = 2
    /\ container[1].shownAt > 0

(* ------------------------------------------------------------------------ *)
\* C25: a status response of a superseded job never affects the current job.
\* When the response handled belongs to a job other than the active jobId, it
\* does not clear the timer of the active job, does not show the download
\* section or a terminal notification, and does not enable a submit button.
C25_SupersededPollHarmless ==
    [][ \A i \in DOMAIN polls : \A b \in StatusBodies(polls[i].state) :
            ( /\ PollResolved(i, b)
              /\ videoState.jobId # Null
              /\ polls[i].job # videoState.jobId ) =>
                /\ LiveTimers' = LiveTimers
                /\ videoState'.statusPollInterval = videoState.statusPollInterval
                /\ videoElements'.downloadHidden = videoElements.downloadHidden
                /\ videoElements'.upscaleBtnDisabled = videoElements.upscaleBtnDisabled
                /\ videoElements'.resizeBtnDisabled = videoElements.resizeBtnDisabled
                /\ toasts' = <<>>
      ]_vars

(* ------------------------------------------------------------------------ *)
\* C26: whenever the download section of the video panel is visible, jobId is
\* not null and the job it names has been seen completed (its terminal
\* notification has been shown and its state is completed).
C26_DownloadVisibleMeansCompleted ==
    (section = "video" /\ ~videoElements.downloadHidden) =>
        /\ videoState.jobId # Null
        /\ notified[videoState.jobId] > 0
        /\ jobs[videoState.jobId].status = "completed"

(* ------------------------------------------------------------------------ *)
\* C27: while a video job is in progress both submit buttons are disabled.
\* A click that starts a submission therefore leaves both buttons disabled,
\* and they stay so while the submit request is in flight or the timer of the
\* job is live.
VideoJobInProgress ==
    /\ section = "video"
    /\ videoState.uploadId # Null
    /\ \/ \E i \in DOMAIN submits : IsVideoSubmit(submits[i]) /\ submits[i].body.upload_id = videoState.uploadId
       \/ LiveTimers # {}

C27_BothButtonsDisabledInProgress ==
    VideoJobInProgress =>
        /\ videoElements.upscaleBtnDisabled
        /\ videoElements.resizeBtnDisabled

(* ------------------------------------------------------------------------ *)
\* C28: overlapping uploads leave the session consistent.  Once no upload is
\* in flight, the uploadId and the metadata the video panel holds are those
\* returned for originalFile, the file selected last; and the failure of the
\* upload of an earlier file leaves the state of the current file, once its
\* upload has succeeded, alone.
C28_OverlappingUploadsConsistent ==
    [][ /\ ( /\ section = "video"
             /\ uploads' = <<>>
             /\ videoState'.uploadId # Null
             /\ videoState'.originalFile # NoFile ) =>
                videoState'.metadata.size = videoState'.originalFile.size
        /\ \A i \in DOMAIN uploads : \A x \in UploadFailures :
              ( /\ VideoUploadRejected(i, x)
                /\ videoState.uploadId # Null
                /\ videoState.metadata.size = videoState.originalFile.size
                /\ uploads[i].file # videoState.originalFile ) =>
                    /\ videoState'.uploadId = videoState.uploadId
                    /\ videoState'.originalFile = videoState.originalFile
      ]_vars

(* ------------------------------------------------------------------------ *)
\* C29: whenever jobId is not null, its job was submitted with the current
\* uploadId.  The response to an upload brings a handle no submission has yet
\* used, so once it is stored no job is active any more: the panel neither
\* polls nor offers for download a job made from an earlier file.
C29_JobBelongsToCurrentUpload ==
    [][ \A i \in DOMAIN uploads :
            VideoUploadResolved(i) =>
                /\ videoState'.jobId = Null
                /\ LiveTimers' = {}
                /\ videoElements'.downloadHidden
      ]_vars

(* ------------------------------------------------------------------------ *)
\* C30: whenever a submit button (upscale or resize of the video panel,
\* process of the photo panel) is enabled, the uploadId of its panel is not
\* null.
C30_EnabledButtonHasUpload ==
    /\ (~videoElements.upscaleBtnDisabled \/ ~videoElements.resizeBtnDisabled) =>
          videoState.uploadId # Null
    /\ ~photoElements.processBtnDisabled => photoState.uploadId # Null

(* ------------------------------------------------------------------------ *)
\* C31: whenever the polling timer is active (statusPollInterval is not null)
\* both jobId and uploadId are not null: no timer runs for a session without a
\* job or without an upload.
C31_TimerHasJobAndUpload ==
    (section = "video" /\ videoState.statusPollInterval # Null) =>
        /\ videoState.jobId # Null
        /\ videoState.uploadId # Null

(* ------------------------------------------------------------------------ *)
\* C32: in the photo panel only a successful process response sets jobId and
\* shows the download section; when processPhoto fails, jobId keeps its value,
\* the download section is hidden, the processing section is hidden, the
\* process button is enabled and an error notification is shown.
C32_FailedProcessLeavesNoResult ==
    [][ section = "photo" =>
          /\ (photoState'.jobId # photoState.jobId /\ photoState'.jobId # Null) =>
                \E i \in DOMAIN submits : PhotoProcessResolved(i)
          /\ (photoElements.downloadHidden /\ ~photoElements'.downloadHidden) =>
                \E i \in DOMAIN submits : PhotoProcessResolved(i)
          /\ \A i \in DOMAIN submits : \A x \in ApiFailures :
                PhotoProcessRejected(i, x) =>
                    /\ photoState'.jobId = photoState.jobId
                    /\ photoElements'.downloadHidden
                    /\ photoElements'.processingHidden
                    /\ ~photoElements'.processBtnDisabled
                    /\ Len(toasts') = 1
                    /\ toasts'[1].type = "error"
      ]_vars

(* ------------------------------------------------------------------------ *)
\* C33: retrieval is read-only.  downloadVideo and downloadPhoto leave
\* uploadId, jobId, originalFile, the parameters, the polling timer and the
\* requests in flight as they are, and the download button stays available:
\* a completed artifact can be downloaded again and again.
C33_DownloadIsReadOnly ==
    [][ /\ DownloadVideo =>
              /\ videoState' = videoState
              /\ videoElements' = videoElements
              /\ intervals' = intervals
              /\ UNCHANGED <<section, uploads, submits, polls, stored, jobs>>
              /\ ~videoElements'.downloadHidden
        /\ DownloadPhoto =>
              /\ photoState' = photoState
              /\ photoElements' = photoElements
              /\ UNCHANGED <<section, uploads, submits, stored, jobs>>
              /\ ~photoElements'.downloadHidden
      ]_vars

\* the result of the active job, completed, has been downloaded: the toast of
\* the download is up, the job and the download section are still there
C33_Witness ==
    /\ section = "video"
    /\ videoState.jobId # Null
    /\ jobs[videoState.jobId].status = "completed"
    /\ notified[videoState.jobId] = 1
    /\ ~videoElements.downloadHidden
    /\ Len(toasts) = 1
    /\ toasts[1].message = "Download started!"

(* ------------------------------------------------------------------------ *)
\* C34: every round of the game played with Rock, Paper or Scissors shows the
\* result the standard rules give for the player's move against the
\* computer's, and adds one to exactly one of wins, losses and ties (the one
\* of that result): the total grows by one per round and no counter ever
\* decreases.
Beats == {<<"Rock", "Scissors">>, <<"Scissors", "Paper">>, <<"Paper", "Rock">>}

ScoreTotal(sc) == sc.wins + sc.losses + sc.ties

RoundOk ==
    /\ moves'.player \in Moves
    /\ moves'.computer \in Moves
    /\ result' = (IF moves'.player = moves'.computer THEN "Empate"
                  ELSE IF <<moves'.player, moves'.computer>> \in Beats THEN "Ganaste"
                  ELSE "Perdiste")
    /\ score'.wins = score.wins + (IF result' = "Ganaste" THEN 1 ELSE 0)
    /\ score'.losses = score.losses + (IF result' = "Perdiste" THEN 1 ELSE 0)
    /\ score'.ties = score.ties + (IF result' = "Empate" THEN 1 ELSE 0)
    /\ ScoreTotal(score') = ScoreTotal(score) + 1

C34_RoundFollowsRules ==
    [][ /\ \A m \in Moves, n \in RandomNumbers :
              PlayGame(m, n) => (RoundOk /\ moves'.player = m)
        /\ (\E t \in DOMAIN intervals : \E n1 \in RandomNumbers, n2 \in RandomNumbers :
                AutoPlayTick(t, n1, n2)) => RoundOk
        /\ score'.wins >= score.wins
        /\ score'.losses >= score.losses
        /\ score'.ties >= score.ties
        /\ score' # score => RoundOk
      ]_vars

\* three rounds from the default score, one won, one lost, one tied, the last
\* of them won with rock against scissors
C34_Witness ==
    /\ section = "game"
    /\ score = [wins |-> 1, losses |-> 1, ties |-> 1]
    /\ result = "Ganaste"
    /\ moves = [player |-> "Rock", computer |-> "Scissors"]

(* ------------------------------------------------------------------------ *)
\* C35: after any sequence of calls of autoPlay at most one auto-play interval
\* is running, it is the one intervalId names, and isAutoPlaying is true
\* exactly when one is running: after an odd number of calls one interval is
\* live, after an even number none.
C35_AutoPlayToggles ==
    section = "game" =>
        /\ Cardinality(LiveTimers) <= 1
        /\ isAutoPlaying <=> (LiveTimers # {})
        /\ LiveTimers \subseteq {intervalId}
        /\ isAutoPlaying <=> (autoPlayCalls % 2 = 1)
        /\ Cardinality(LiveTimers) = autoPlayCalls % 2

\* autoPlay has been called three times: the first interval is cleared, the
\* second is running
C35_Witness ==
    /\ section = "game"
    /\ autoPlayCalls = 3
    /\ isAutoPlaying
    /\ Len(intervals) = 2
    /\ LiveTimers = {2}
    /\ intervalId = 2

=============================================================================
